---- MODULE Spec2Model ----
(***************************************************************************)
(* Model of the vector index lifecycle manager, FaissIndexer               *)
(* (app/backend/vectorstore/faiss_index.py), and of the HTTP handlers of   *)
(* app/backend/api/routes.py that own it through the global INDEXER:       *)
(* chat, which touches its metadata directly, upload, logout, the document *)
(* list and the background cleanup of a deleted document.                  *)
(*                                                                         *)
(* A manager holds a FAISS index (None, or a flat L2 index: a dimension    *)
(* and an ordered list of vectors), a metadata list (one chunk record per  *)
(* vector, same ordinal position), a non-reentrant threading.Lock and two  *)
(* persisted files.  Threads call its operations; every operation is split *)
(* at the points where another thread can observe shared state.  A call    *)
(* that needs the lock starts when the lock is free: a thread waiting for  *)
(* the lock is a thread whose call has not started.                        *)
(* Ordinal positions are 1-based here (0-based in the source).             *)
(***************************************************************************)
EXTENDS Integers, Sequences, FiniteSets, TLC

\* ---------------------------------------------------------------- bounds
\* most chunks the store ever holds
MaxChunks == 3
\* most chunks the store holds where its files are followed too
MaxDiskChunks == 2
\* longest batch handed to one add call
MaxAdd == 1
\* largest k passed to retrieve
MaxK == 2
\* width of the vectors the embedding model produces
ModelWidth == 2
\* most pieces (runs of letters, blanks, line ends) a text handed to
\* split_text is made of
MaxPieces == 3

\* threads using the manager: the server's event loop, which runs the async
\* handlers (they call add, reset, save and retrieve), and the thread-pool
\* worker that runs the background cleanup (it calls delete_by_source and
\* save); delete_by_source is open to both
LoopThread == 1
WorkerThread == 2
Threads == {LoopThread, WorkerThread}
NoThread == 0

\* the documents of the workspace and the texts of their chunks: document
\* A splits into two chunks, document B into one whose text (and so whose
\* embedding) is that of A's first
Sources == {"A", "B"}
Texts == {1, 2}
Queries == {1, 2}
\* a chunk record {source, text}
Chunks == {c \in [source : Sources, text : Texts] :
             c.source = "B" => c.text = 1}

\* ------------------------------------------------------- embedding model
\* model.encode for one text: a vector of ModelWidth components
Embed(t) == [i \in 1..ModelWidth |-> IF i = 1 THEN t ELSE 0]

\* model.encode(texts): one vector per text, in order
Encode(recs) == [i \in 1..Len(recs) |-> Embed(recs[i].text)]

\* the array a caller hands to add: the embeddings of the chunks, w wide
VectorsOfWidth(recs, w) ==
  [i \in 1..Len(recs) |-> [j \in 1..w |-> IF j = 1 THEN recs[i].text ELSE 0]]

\* vectors.shape[1] of a non-empty 2-D array
Width(vectors) == Len(vectors[1])

\* ------------------------------------------------------------ FAISS index
\* self.index is None
NoIndex == [present |-> FALSE, d |-> 0, vecs |-> <<>>]

\* faiss.IndexFlatL2(dim): an empty flat index
IndexFlatL2(dm) == [present |-> TRUE, d |-> dm, vecs |-> <<>>]

\* getattr(self.index, "ntotal", 0)
ntotal(ix) == Len(ix.vecs)

\* index.add(vectors): append in order
IndexAdd(ix, vectors) == [ix EXCEPT !.vecs = ix.vecs \o vectors]

\* the elements of s whose positions are not in rm, in their original order
RECURSIVE DropPositions(_, _, _)
DropPositions(s, rm, i) ==
  IF i > Len(s) THEN <<>>
  ELSE (IF i \in rm THEN <<>> ELSE <<s[i]>>) \o DropPositions(s, rm, i + 1)

\* remove_ids that drops as many rows as asked, but from the end
RemoveIdsFromTail(ix, ids) ==
  [ix EXCEPT !.vecs = SubSeq(ix.vecs, 1, Len(ix.vecs) - Cardinality(ids))]

\* index.remove_ids(ids) on a flat index: drops the rows and compacts
RemoveIds(ix, ids) == [ix EXCEPT !.vecs = DropPositions(ix.vecs, ids, 1)]

\* squared Euclidean distance
RECURSIVE SumSq(_, _, _)
SumSq(a, b, i) ==
  IF i > Len(a) THEN 0
  ELSE (a[i] - b[i]) * (a[i] - b[i]) + SumSq(a, b, i + 1)

L2sqr(a, b) == SumSq(a, b, 1)

\* insertion in front of the entries that are exactly as near
InsertRankedTiesFirst(best, j, vecs, qv) ==
  LET dj == L2sqr(vecs[j], qv)
      ahead == {p \in 1..Len(best) : L2sqr(vecs[best[p]], qv) < dj}
      n == Cardinality(ahead)
  IN  SubSeq(best, 1, n) \o <<j>> \o SubSeq(best, n + 1, Len(best))

\* insert id j into the ranked list best (positions of vecs, nearest first)
\* behind every entry that is at least as near
InsertRanked(best, j, vecs, qv) ==
  LET dj == L2sqr(vecs[j], qv)
      ahead == {p \in 1..Len(best) : L2sqr(vecs[best[p]], qv) <= dj}
      n == Cardinality(ahead)
  IN  SubSeq(best, 1, n) \o <<j>> \o SubSeq(best, n + 1, Len(best))

\* the flat index scans the rows in order and keeps the k best: a row
\* replaces the current worst only when it is strictly nearer
RECURSIVE ScanRows(_, _, _, _, _)
ScanRows(vecs, qv, k, j, best) ==
  IF j > Len(vecs) THEN best
  ELSE IF Len(best) < k
       THEN ScanRows(vecs, qv, k, j + 1, InsertRanked(best, j, vecs, qv))
       ELSE IF L2sqr(vecs[j], qv) < L2sqr(vecs[best[Len(best)]], qv)
            THEN ScanRows(vecs, qv, k, j + 1,
                   InsertRanked(SubSeq(best, 1, Len(best) - 1), j, vecs, qv))
            ELSE ScanRows(vecs, qv, k, j + 1, best)

\* index.search(q_vec, k): the row ids I[0]
IndexSearch(ix, qv, k) == ScanRows(ix.vecs, qv, k, 1, <<>>)

Min(a, b) == IF a < b THEN a ELSE b

\* ------------------------------------------------------- persisted files
\* the file at index_path: absent, or the bytes of a flat index (its
\* dimension d, its row count and the rows' components one after another),
\* whole (valid) or cut short
NoIndexFile ==
  [exists |-> FALSE, valid |-> FALSE, d |-> 0, ntotal |-> 0, xb |-> <<>>]

\* the file at meta_path: absent, or a JSON array with one object
\* {"source": ..., "text": ...} per record, whole (valid) or cut short
NoMetaFile == [exists |-> FALSE, valid |-> FALSE, items |-> <<>>]

\* the components of the rows of a flat index, row after row
RECURSIVE Flatten(_)
Flatten(vecs) ==
  IF vecs = <<>> THEN <<>> ELSE Head(vecs) \o Flatten(Tail(vecs))

\* faiss.write_index(self.index, path)
WriteIndex(ix) ==
  [exists |-> TRUE, valid |-> TRUE, d |-> ix.d, ntotal |-> Len(ix.vecs),
   xb |-> Flatten(ix.vecs)]

\* the n rows of d components each that the bytes xb hold
Rows(xb, d, n) == [i \in 1..n |-> SubSeq(xb, (i - 1) * d + 1, i * d)]

\* faiss.read_index(path) of a whole file
ReadIndex(f) == [present |-> TRUE, d |-> f.d, vecs |-> Rows(f.xb, f.d, f.ntotal)]

\* json.dumps(self.meta): the objects in list order, each with its source
\* and its text
JsonDumps(m) == [i \in 1..Len(m) |-> <<m[i].source, m[i].text>>]

\* json.loads of a whole file
JsonLoads(items) ==
  [i \in 1..Len(items) |-> [source |-> items[i][1], text |-> items[i][2]]]

\* meta_path.write_text(json.dumps(self.meta))
WriteMeta(m) == [exists |-> TRUE, valid |-> TRUE, items |-> JsonDumps(m)]

\* a file whose write did not finish, or whose bytes were damaged since
Damaged(f) == [f EXCEPT !.valid = FALSE]

\* a file opened for writing and left empty when the write raised
EmptiedIndexFile ==
  [exists |-> TRUE, valid |-> FALSE, d |-> 0, ntotal |-> 0, xb |-> <<>>]

EmptiedMetaFile == [exists |-> TRUE, valid |-> FALSE, items |-> <<>>]

\* a load that takes the rows of a damaged file as they are
LoadIndexUnguarded(f, ix) ==
  IF f.exists THEN ReadIndex(f) ELSE ix

\* load(), lines 86-90: self.index after load() when it was ix before
LoadIndex(f, ix) ==
  IF f.exists THEN (IF f.valid THEN ReadIndex(f) ELSE NoIndex) ELSE ix

\* load(), lines 92-96: self.meta after load() when it was m before
LoadMeta(f, m) ==
  IF f.exists THEN (IF f.valid THEN JsonLoads(f.items) ELSE <<>>) ELSE m

\* -------------------------------------------------------------- the state
VARIABLES
  dim,          \* self.dim
  index,        \* self.index
  meta,         \* self.meta
  lock,         \* self._lock: the thread holding it, or NoThread
  indexFile,    \* the file at index_path
  metaFile,     \* the file at meta_path
  nativeRemoval,\* whether the FAISS build removes ids from a flat index
  pc,           \* per thread: where it is in the operation it runs
  loc,          \* per thread: the arguments and locals of that operation
  res,          \* per thread: the outcome of the operation it last finished
  INDEXER,      \* routes.INDEXER: TRUE when it refers to the manager, FALSE
                \* when it is None
  uploads       \* per upload request in flight: where its handler is

vars == <<dim, index, meta, lock, indexFile, metaFile, nativeRemoval,
          pc, loc, res, INDEXER, uploads>>

shared == <<INDEXER, uploads, dim, index, meta, indexFile, metaFile,
            nativeRemoval>>

\* arguments and locals of a call, all at their defaults
NoLocals ==
  [ source |-> "", metas |-> <<>>, vectors |-> <<>>, clear |-> FALSE,
    q |-> 0, k |-> 0,
    to_remove |-> {}, keep_meta |-> <<>>, I |-> <<>>,
    searched |-> <<>>, resolved |-> <<>>,
    preIndex |-> NoIndex, preMeta |-> <<>>,
    caller |-> "", original_meta |-> <<>>,
    text |-> <<>>, chunk_size |-> 0, overlap |-> 0, start |-> 0,
    length |-> 0, chunks |-> <<>> ]

\* outcome of a call: what it was, how it ended, and what it returned
NoResult == [op |-> "", status |-> "", count |-> 0, recs |-> <<>>]

\* the upload requests the event loop can have in flight at once: a handler
\* gives way to another at its "await file.read()"
Uploads == {1, 2}

\* the names of the files a client uploads
Filenames == Sources \cup {"C"}

\* an upload handler that is not running: no request, or one answered
NoUpload ==
  [ stage |-> "none", files |-> <<>>, existing_docs |-> {}, pos |-> 0,
    status |-> "", uploaded |-> <<>>, total_chunks |-> 0 ]

\* the aggregates a previous run can have saved
SavedAggregates ==
  { <<>>,
    <<[source |-> "A", text |-> 1]>>,
    <<[source |-> "A", text |-> 1], [source |-> "B", text |-> 1]>> }

\* FaissIndexer.__init__ followed by load(): the files hold nothing, or
\* the aggregate a previous save wrote
Init ==
  /\ dim = ModelWidth
  /\ nativeRemoval \in BOOLEAN
  /\ \/ /\ indexFile = NoIndexFile
        /\ metaFile = NoMetaFile
     \/ \E m \in SavedAggregates :
          /\ indexFile = WriteIndex(IndexAdd(IndexFlatL2(ModelWidth), Encode(m)))
          /\ metaFile = WriteMeta(m)
  /\ index = LoadIndex(indexFile, NoIndex)
  /\ meta = LoadMeta(metaFile, <<>>)
  /\ lock = NoThread
  /\ pc = [t \in Threads |-> "idle"]
  /\ loc = [t \in Threads |-> NoLocals]
  /\ res = [t \in Threads |-> NoResult]
  /\ INDEXER = TRUE
  /\ uploads = [u \in Uploads |-> NoUpload]

\* no finished call is waiting for its caller to take the outcome.  Taking
\* an outcome touches nothing another thread can see, so it is scheduled
\* before any other step: the state in which a call has just finished is
\* always visited, and is not multiplied by what the other thread does
\* meanwhile.
OutcomesTaken == \A t \in Threads : pc[t] # "done"

\* ------------------------------------------------------------------ reset
\* a thread calls reset() and enters "with self._lock"
ResetBegin(t) ==
  /\ OutcomesTaken
  /\ t = LoopThread
  /\ pc[t] = "idle"
  /\ lock = NoThread
  /\ lock' = t
  /\ pc' = [pc EXCEPT ![t] = "reset_body"]
  /\ UNCHANGED <<shared, loc, res>>

\* where a reset that ends goes: back to its caller
AfterReset(t) == IF loc[t].caller = "logout" THEN "logout_clear" ELSE "done"

\* the body of reset: fresh index, empty meta, both files unlinked
ResetBody(t) ==
  /\ OutcomesTaken
  /\ pc[t] = "reset_body"
  /\ index' = IndexFlatL2(dim)
  /\ meta' = <<>>
  /\ indexFile' = NoIndexFile
  /\ metaFile' = NoMetaFile
  /\ lock' = NoThread
  /\ pc' = [pc EXCEPT ![t] = AfterReset(t)]
  /\ res' = [res EXCEPT ![t] = [NoResult EXCEPT !.op = "reset", !.status = "ok"]]
  /\ UNCHANGED <<INDEXER, uploads, dim, nativeRemoval, loc>>

\* what is left of a file whose unlink raised
UnlinkFailed(f) == f

\* the body of reset when unlink raises for a file that exists (lines
\* 35-44): the exception is dropped and reset ends like any other
ResetUnlinkFails(t) ==
  /\ OutcomesTaken
  /\ pc[t] = "reset_body"
  /\ index' = IndexFlatL2(dim)
  /\ meta' = <<>>
  /\ \E keepIndex, keepMeta \in BOOLEAN :
       /\ keepIndex \/ keepMeta
       /\ keepIndex => indexFile.exists
       /\ keepMeta => metaFile.exists
       /\ indexFile' = IF keepIndex THEN UnlinkFailed(indexFile) ELSE NoIndexFile
       /\ metaFile' = IF keepMeta THEN UnlinkFailed(metaFile) ELSE NoMetaFile
  /\ lock' = NoThread
  /\ pc' = [pc EXCEPT ![t] = AfterReset(t)]
  /\ res' = [res EXCEPT ![t] = [NoResult EXCEPT !.op = "reset", !.status = "ok"]]
  /\ UNCHANGED <<INDEXER, uploads, dim, nativeRemoval, loc>>

\* -------------------------------------------------------------------- add
StoreSize == IF ntotal(index) > Len(meta) THEN ntotal(index) ELSE Len(meta)

\* the batches a caller hands to add: 1..MaxAdd chunk records
RECURSIVE SeqsUpTo(_, _)
SeqsUpTo(S, n) ==
  IF n = 0 THEN {<<>>}
  ELSE LET shorter == SeqsUpTo(S, n - 1)
       IN  shorter \cup {Append(s, x) : s \in shorter, x \in S}

Batches == SeqsUpTo(Chunks, MaxAdd) \ {<<>>}

\* a thread calls add(vectors, metas, clear_existing) with one vector per
\* record (the embeddings of the records' texts, of the index's width or
\* one wider) and enters "with self._lock"
AddBegin(t) ==
  /\ OutcomesTaken
  /\ t = LoopThread
  /\ pc[t] = "idle"
  /\ lock = NoThread
  /\ \E metas \in Batches, w \in {dim, dim + 1}, clear \in BOOLEAN :
       /\ (IF clear THEN 0 ELSE StoreSize) + Len(metas) <= MaxChunks
       /\ loc' = [loc EXCEPT ![t] = [NoLocals EXCEPT !.metas = metas,
                                       !.vectors = VectorsOfWidth(metas, w),
                                       !.clear = clear,
                                       !.preIndex = index,
                                       !.preMeta = meta]]
  /\ lock' = t
  /\ pc' = [pc EXCEPT ![t] = "add_body"]
  /\ UNCHANGED <<shared, res>>

\* add called where the files are followed too: the batch fits the smaller
\* store
AddBeginDisk(t) ==
  /\ AddBegin(t)
  /\ (IF loc'[t].clear THEN 0 ELSE StoreSize) + Len(loc'[t].metas)
       <= MaxDiskChunks

\* the index add works on once clear_existing and the None case are done
AddPreparedIndex(ix, clear, dm) ==
  IF clear \/ ~ix.present THEN IndexFlatL2(dm) ELSE ix

\* the meta add works on once clear_existing is done
AddPreparedMeta(m, clear) == IF clear THEN <<>> ELSE m

\* lines 53-68: clear_existing wipes index and meta, a missing index is
\* created, then the width of the vectors is checked
AddPrepare(t) ==
  /\ OutcomesTaken
  /\ pc[t] = "add_body"
  /\ index' = AddPreparedIndex(index, loc[t].clear, dim)
  /\ meta' = AddPreparedMeta(meta, loc[t].clear)
  /\ IF Width(loc[t].vectors) # dim
     THEN /\ lock' = NoThread
          /\ pc' = [pc EXCEPT ![t] = "done"]
          /\ res' = [res EXCEPT ![t] = [NoResult EXCEPT !.op = "add",
                                          !.status = "DimensionMismatch"]]
     ELSE /\ pc' = [pc EXCEPT ![t] = "add_index"]
          /\ UNCHANGED <<lock, res>>
  /\ UNCHANGED <<INDEXER, uploads, dim, indexFile, metaFile, nativeRemoval, loc>>

\* self.index.add(vectors): the engine refuses rows that are not as wide as
\* it is, and the exception leaves add
AddIndex(t) ==
  /\ OutcomesTaken
  /\ pc[t] = "add_index"
  /\ IF Width(loc[t].vectors) # index.d
     THEN /\ lock' = NoThread
          /\ pc' = [pc EXCEPT ![t] = "done"]
          /\ res' = [res EXCEPT ![t] = [NoResult EXCEPT !.op = "add",
                                          !.status = "EngineError"]]
          /\ UNCHANGED index
     ELSE /\ index' = IndexAdd(index, loc[t].vectors)
          /\ pc' = [pc EXCEPT ![t] = "add_meta"]
          /\ UNCHANGED <<lock, res>>
  /\ UNCHANGED <<INDEXER, uploads, dim, meta, indexFile, metaFile, nativeRemoval, loc>>

\* what self.meta.extend(metas) leaves in meta
MetaExtend(m, metas) == m \o metas

\* an add that persists the aggregate before it returns
AddMetaPersists(t) ==
  /\ OutcomesTaken
  /\ pc[t] = "add_meta"
  /\ meta' = MetaExtend(meta, loc[t].metas)
  /\ indexFile' = WriteIndex(index)
  /\ metaFile' = WriteMeta(meta')
  /\ lock' = NoThread
  /\ pc' = [pc EXCEPT ![t] = "done"]
  /\ res' = [res EXCEPT ![t] = [NoResult EXCEPT !.op = "add", !.status = "ok",
                                  !.count = Len(loc[t].metas)]]
  /\ UNCHANGED <<INDEXER, uploads, dim, index, nativeRemoval, loc>>

\* self.meta.extend(metas), and the lock is released
AddMeta(t) ==
  /\ OutcomesTaken
  /\ pc[t] = "add_meta"
  /\ meta' = MetaExtend(meta, loc[t].metas)
  /\ lock' = NoThread
  /\ pc' = [pc EXCEPT ![t] = "done"]
  /\ res' = [res EXCEPT ![t] = [NoResult EXCEPT !.op = "add", !.status = "ok",
                                  !.count = Len(loc[t].metas)]]
  /\ UNCHANGED <<INDEXER, uploads, dim, index, indexFile, metaFile, nativeRemoval, loc>>

\* ------------------------------------------------------------------- save
\* save() enters "with self._lock": called by a client, or by
\* delete_by_source, which is inside its own "with self._lock" then
SaveBegin(t) ==
  /\ OutcomesTaken
  /\ pc[t] \in {"idle", "del_save"}
  /\ lock = NoThread
  /\ lock' = t
  /\ pc' = [pc EXCEPT ![t] = "save_body"]
  /\ UNCHANGED <<shared, loc, res>>

\* the body of save: write_index when there is an index, then the metadata
\* file; the lock is released on the way out
SaveBody(t) ==
  /\ OutcomesTaken
  /\ pc[t] = "save_body"
  /\ indexFile' = IF index.present THEN WriteIndex(index) ELSE indexFile
  /\ metaFile' = WriteMeta(meta)
  /\ res' = [res EXCEPT ![t] =
       [NoResult EXCEPT
          !.op = IF loc[t].caller = "" THEN "save" ELSE loc[t].caller,
          !.status = "ok",
          !.count = Cardinality(loc[t].to_remove)]]
  /\ lock' = NoThread
  /\ pc' = [pc EXCEPT ![t] = "done"]
  /\ UNCHANGED <<INDEXER, uploads, dim, index, meta, nativeRemoval, loc>>

\* the body of save when faiss.write_index raises (line 78, outside the
\* try): the exception leaves save, the index file keeps its content (it
\* could not be opened) or is left empty, the metadata file is not written
SaveWriteIndexFails(t) ==
  /\ OutcomesTaken
  /\ pc[t] = "save_body"
  /\ index.present
  /\ \E f \in {indexFile, EmptiedIndexFile} : indexFile' = f
  /\ res' = [res EXCEPT ![t] = [NoResult EXCEPT !.op = "save",
                                  !.status = "StorageFailure"]]
  /\ lock' = NoThread
  /\ pc' = [pc EXCEPT ![t] = "done"]
  /\ UNCHANGED <<INDEXER, uploads, dim, index, meta, metaFile, nativeRemoval, loc>>

\* the body of save when writing the metadata raises (lines 79-82): the
\* index file is written already, the exception is printed and save returns;
\* the metadata file keeps its content (it could not be opened) or is left
\* empty
SaveMetaFails(t) ==
  /\ OutcomesTaken
  /\ pc[t] = "save_body"
  /\ indexFile' = IF index.present THEN WriteIndex(index) ELSE indexFile
  /\ \E f \in {metaFile, EmptiedMetaFile} : metaFile' = f
  /\ res' = [res EXCEPT ![t] = [NoResult EXCEPT !.op = "save", !.status = "ok"]]
  /\ lock' = NoThread
  /\ pc' = [pc EXCEPT ![t] = "done"]
  /\ UNCHANGED <<INDEXER, uploads, dim, index, meta, nativeRemoval, loc>>

\* ------------------------------------------------------- delete_by_source
\* the test on the source inverted
ToRemoveOthers(m, source_name) ==
  {i \in 1..Len(m) : m[i].source # source_name}

\* a search for the source that stops at the first record it finds
ToRemoveFirst(m, source_name) ==
  LET all == {i \in 1..Len(m) : m[i].source = source_name}
  IN  {i \in all : \A j \in all : i <= j}

\* to_remove: the positions of the records whose source is source_name
ToRemove(m, source_name) == {i \in 1..Len(m) : m[i].source = source_name}

\* a thread calls delete_by_source(source_name) and enters "with
\* self._lock"; with no meta or no matching record it returns 0 at once
DeleteBegin(t) ==
  /\ OutcomesTaken
  /\ pc[t] = "idle"
  /\ lock = NoThread
  /\ \E source_name \in Sources :
       IF ToRemove(meta, source_name) = {}
       THEN /\ pc' = [pc EXCEPT ![t] = "done"]
            /\ loc' = [loc EXCEPT ![t] = [NoLocals EXCEPT
                                            !.source = source_name,
                                            !.preIndex = index,
                                            !.preMeta = meta]]
            /\ res' = [res EXCEPT ![t] = [NoResult EXCEPT
                                            !.op = "delete_by_source",
                                            !.status = "ok", !.count = 0]]
            /\ UNCHANGED lock
       ELSE /\ pc' = [pc EXCEPT ![t] = "del_remove"]
            /\ loc' = [loc EXCEPT ![t] = [NoLocals EXCEPT
                                            !.source = source_name,
                                            !.to_remove = ToRemove(meta, source_name),
                                            !.caller = "delete_by_source",
                                            !.preIndex = index,
                                            !.preMeta = meta]]
            /\ lock' = t
            /\ UNCHANGED res
  /\ UNCHANGED shared

\* hasattr(self.index, "remove_ids") holds and remove_ids does not raise
CanRemoveIds == index.present /\ nativeRemoval

\* self.index.remove_ids(ids_array)
DeleteRemoveIds(t) ==
  /\ OutcomesTaken
  /\ pc[t] = "del_remove"
  /\ CanRemoveIds
  /\ index' = RemoveIds(index, loc[t].to_remove)
  /\ pc' = [pc EXCEPT ![t] = "del_meta"]
  /\ UNCHANGED <<INDEXER, uploads, dim, meta, lock, indexFile, metaFile, nativeRemoval, loc, res>>

\* a filter that keeps every record
KeepMetaKeepsAll(m, to_remove) == m

\* a filter whose positions are off by one
KeepMetaShifted(m, to_remove) ==
  DropPositions(m, {i - 1 : i \in to_remove}, 1)

\* the records kept: those whose position is not in to_remove
KeepMeta(m, to_remove) == DropPositions(m, to_remove, 1)

\* self.meta = [m for i, m in enumerate(self.meta) if i not in keep_set],
\* then self.save() is called
DeleteFilterMeta(t) ==
  /\ OutcomesTaken
  /\ pc[t] = "del_meta"
  /\ meta' = KeepMeta(meta, loc[t].to_remove)
  /\ pc' = [pc EXCEPT ![t] = "del_save"]
  /\ UNCHANGED <<INDEXER, uploads, dim, index, lock, indexFile, metaFile, nativeRemoval, loc, res>>

\* a rebuild that appends the fresh vectors last record first
RebuiltIndexReversed(kept_meta, dm) ==
  IF kept_meta = <<>> \/ Width(Encode(kept_meta)) # dm
  THEN IndexFlatL2(dm)
  ELSE IndexAdd(IndexFlatL2(dm),
         [i \in 1..Len(kept_meta) |->
            Encode(kept_meta)[Len(kept_meta) + 1 - i]])

\* the index _rebuild_index_from_meta builds from the kept records
RebuiltIndex(kept_meta, dm) ==
  IF kept_meta = <<>> \/ Width(Encode(kept_meta)) # dm
  THEN IndexFlatL2(dm)
  ELSE IndexAdd(IndexFlatL2(dm), Encode(kept_meta))

\* the fallback: keep_meta is computed and _rebuild_index_from_meta
\* re-encodes its texts and replaces self.index (and empties self.meta when
\* nothing is kept); vectors of the wrong width make it return None after
\* the index was replaced, and delete_by_source raises
DeleteRebuild(t) ==
  /\ OutcomesTaken
  /\ pc[t] = "del_remove"
  /\ ~CanRemoveIds
  /\ LET keep_meta == KeepMeta(meta, loc[t].to_remove)
     IN  /\ index' = RebuiltIndex(keep_meta, dim)
         /\ loc' = [loc EXCEPT ![t].keep_meta = keep_meta]
         /\ IF keep_meta = <<>>
            THEN /\ meta' = <<>>
                 /\ pc' = [pc EXCEPT ![t] = "del_save"]
                 /\ UNCHANGED <<lock, res>>
            ELSE IF Width(Encode(keep_meta)) # dim
            THEN /\ lock' = NoThread
                 /\ pc' = [pc EXCEPT ![t] = "done"]
                 /\ res' = [res EXCEPT ![t] = [NoResult EXCEPT
                                                 !.op = "delete_by_source",
                                                 !.status = "RebuildFailure"]]
                 /\ UNCHANGED meta
            ELSE /\ pc' = [pc EXCEPT ![t] = "del_keep"]
                 /\ UNCHANGED <<meta, lock, res>>
  /\ UNCHANGED <<INDEXER, uploads, dim, indexFile, metaFile, nativeRemoval>>

\* an index emptied before the texts are encoded
EncodeFailedIndexWiped(ix, dm) == IndexFlatL2(dm)

\* self.index when model.encode raises in _rebuild_index_from_meta: the
\* index is replaced only after every batch is encoded
EncodeFailedIndex(ix, dm) == ix

\* the fallback when model.encode raises: _rebuild_index_from_meta returns
\* None and delete_by_source raises RuntimeError
DeleteRebuildFails(t) ==
  /\ OutcomesTaken
  /\ pc[t] = "del_remove"
  /\ ~CanRemoveIds
  /\ KeepMeta(meta, loc[t].to_remove) # <<>>
  /\ index' = EncodeFailedIndex(index, dim)
  /\ lock' = NoThread
  /\ pc' = [pc EXCEPT ![t] = "done"]
  /\ res' = [res EXCEPT ![t] = [NoResult EXCEPT !.op = "delete_by_source",
                                  !.status = "RebuildFailure"]]
  /\ UNCHANGED <<INDEXER, uploads, dim, meta, indexFile, metaFile, nativeRemoval, loc>>

\* self.meta = keep_meta after a rebuild, then self.save() is called
DeleteKeepMeta(t) ==
  /\ OutcomesTaken
  /\ pc[t] = "del_keep"
  /\ meta' = loc[t].keep_meta
  /\ pc' = [pc EXCEPT ![t] = "del_save"]
  /\ UNCHANGED <<INDEXER, uploads, dim, index, lock, indexFile, metaFile, nativeRemoval, loc, res>>

\* --------------------------------------------------------------- retrieve
\* the records retrieve returns for the row ids I: those of the ids that
\* are positions of m, in the order of I
RECURSIVE Resolve(_, _, _)
Resolve(I, m, p) ==
  IF p > Len(I) THEN <<>>
  ELSE (IF 1 <= I[p] /\ I[p] <= Len(m) THEN <<m[I[p]]>> ELSE <<>>)
       \o Resolve(I, m, p + 1)

\* how many rows retrieve asks the index for
SearchK(k, ix) == Min(k, ntotal(ix))

\* where a retrieve that ends goes: back to its caller
AfterRetrieve(t) == IF loc[t].caller = "chat" THEN "chat_restore" ELSE "done"

\* retrieve(query, k), lines 103-119, called by a client or by run_rag for
\* the chat handler: nothing to search returns []; otherwise the query is
\* embedded and the index searched; the engine refuses a query that is not
\* as wide as it is, and the exception leaves retrieve
RetrieveSearch(t) ==
  /\ OutcomesTaken
  /\ t = LoopThread
  /\ pc[t] \in {"idle", "chat_rag"}
  /\ \E q \in Queries, k \in 1..MaxK :
       IF ~index.present \/ Len(meta) = 0 \/ ntotal(index) = 0
       THEN /\ pc' = [pc EXCEPT ![t] = AfterRetrieve(t)]
            /\ loc' = [loc EXCEPT ![t].q = q, ![t].k = k]
            /\ res' = [res EXCEPT ![t] = [NoResult EXCEPT !.op = "retrieve",
                                            !.status = "empty"]]
       ELSE IF Len(Embed(q)) # index.d
       THEN /\ pc' = [pc EXCEPT ![t] = "done"]
            /\ loc' = [loc EXCEPT ![t].q = q, ![t].k = k]
            /\ res' = [res EXCEPT ![t] =
                 [NoResult EXCEPT
                    !.op = IF loc[t].caller = "chat" THEN "chat" ELSE "retrieve",
                    !.status = "EngineError"]]
       ELSE /\ pc' = [pc EXCEPT ![t] = "retrieve_resolve"]
            /\ loc' = [loc EXCEPT ![t].q = q, ![t].k = k,
                         ![t].I = IndexSearch(index, Embed(q), SearchK(k, index)),
                         ![t].searched = index.vecs]
            /\ UNCHANGED res
  /\ UNCHANGED <<shared, lock>>

\* retrieve when model.encode raises on the query; under chat the exception
\* reaches the handler's except clause, past the line that restores meta
RetrieveFails(t) ==
  /\ OutcomesTaken
  /\ t = LoopThread
  /\ pc[t] \in {"idle", "chat_rag"}
  /\ index.present /\ Len(meta) # 0
  /\ pc' = [pc EXCEPT ![t] = "done"]
  /\ res' = [res EXCEPT ![t] =
       [NoResult EXCEPT
          !.op = IF loc[t].caller = "chat" THEN "chat" ELSE "retrieve",
          !.status = "ProviderUnavailable"]]
  /\ UNCHANGED <<shared, lock, loc>>

\* lines 121-126: each row id is looked up in self.meta
RetrieveResolve(t) ==
  /\ OutcomesTaken
  /\ pc[t] = "retrieve_resolve"
  /\ pc' = [pc EXCEPT ![t] = AfterRetrieve(t)]
  /\ loc' = [loc EXCEPT ![t].resolved = meta]
  /\ res' = [res EXCEPT ![t] = [NoResult EXCEPT !.op = "retrieve",
                                  !.status = "ok",
                                  !.recs = Resolve(loc[t].I, meta, 1)]]
  /\ UNCHANGED <<shared, lock>>

\* ------------------------------------------------ chat handler (routes.py)
\* the records of m whose source is document
FilteredMeta(m, document) == SelectSeq(m, LAMBDA r : r.source = document)

\* POST /chat with a document, lines 306-328: with an index that holds
\* records, the handler keeps indexer.meta aside and assigns the filtered
\* list to it when that is not empty, then calls run_rag
ChatBegin(t) ==
  /\ OutcomesTaken
  /\ t = LoopThread
  /\ pc[t] = "idle"
  /\ Len(meta) # 0
  /\ \E document \in Sources :
       /\ loc' = [loc EXCEPT ![t] = [NoLocals EXCEPT !.source = document,
                                       !.caller = "chat",
                                       !.original_meta = meta]]
       /\ meta' = IF FilteredMeta(meta, document) # <<>>
                  THEN FilteredMeta(meta, document) ELSE meta
  /\ pc' = [pc EXCEPT ![t] = "chat_rag"]
  /\ UNCHANGED <<INDEXER, uploads, dim, index, lock, indexFile, metaFile, nativeRemoval, res>>

\* a chat that returns without assigning to indexer.meta again
ChatRestoreKeeps(t) ==
  /\ OutcomesTaken
  /\ pc[t] = "chat_restore"
  /\ pc' = [pc EXCEPT ![t] = "done"]
  /\ res' = [res EXCEPT ![t].op = "chat"]
  /\ UNCHANGED <<shared, lock, loc>>

\* lines 330-333: indexer.meta = original_meta, and the result is returned
ChatRestore(t) ==
  /\ OutcomesTaken
  /\ pc[t] = "chat_restore"
  /\ meta' = loc[t].original_meta
  /\ pc' = [pc EXCEPT ![t] = "done"]
  /\ res' = [res EXCEPT ![t].op = "chat"]
  /\ UNCHANGED <<INDEXER, uploads, dim, index, lock, indexFile, metaFile, nativeRemoval, loc>>

\* the caller takes the outcome and is free for its next call
Return(t) ==
  /\ pc[t] = "done"
  /\ pc' = [pc EXCEPT ![t] = "idle"]
  /\ loc' = [loc EXCEPT ![t] = NoLocals]
  /\ res' = [res EXCEPT ![t] = NoResult]
  /\ UNCHANGED <<shared, lock>>

\* add, delete_by_source, reset and retrieve: the operations on the
\* in-memory aggregate
MemoryStep(t) ==
  \/ ResetBegin(t)
  \/ ResetBody(t)
  \/ AddBegin(t)
  \/ AddPrepare(t)
  \/ AddIndex(t)
  \/ AddMeta(t)
  \/ DeleteBegin(t)
  \/ DeleteRemoveIds(t)
  \/ DeleteFilterMeta(t)
  \/ DeleteRebuild(t)
  \/ DeleteRebuildFails(t)
  \/ DeleteKeepMeta(t)
  \/ RetrieveSearch(t)
  \/ RetrieveFails(t)
  \/ RetrieveResolve(t)
  \/ Return(t)

MemoryNext == \E t \in Threads : MemoryStep(t)

\* the manager without save: save writes the files only, so index and meta
\* go through the same values with it and without it
MemorySpec == Init /\ [][MemoryNext]_vars

\* every operation of the manager
Next ==
  \E t \in Threads :
    \/ MemoryStep(t)
    \/ SaveBegin(t)
    \/ SaveBody(t)

Spec == Init /\ [][Next]_vars

\* the in-memory operations together with the chat handler
ChatNext ==
  \E t \in Threads :
    \/ MemoryStep(t)
    \/ ChatBegin(t)
    \/ ChatRestore(t)

ChatSpec == Init /\ [][ChatNext]_vars

\* ------------------------------------------------ a new manager on the files
\* FaissIndexer(dim, index_path): the process was stopped, at any point, and
\* started again, or logout dropped the manager; the next request constructs
\* a manager on the same paths: no index, no records, a lock of its own,
\* then load()
Construct(t) ==
  /\ OutcomesTaken
  /\ t = LoopThread
  /\ index' = LoadIndex(indexFile, NoIndex)
  /\ meta' = LoadMeta(metaFile, <<>>)
  /\ lock' = NoThread
  /\ pc' = [u \in Threads |-> IF u = t THEN "done" ELSE "idle"]
  /\ loc' = [u \in Threads |-> NoLocals]
  /\ res' = [u \in Threads |->
               IF u = t THEN [NoResult EXCEPT !.op = "construct", !.status = "ok"]
               ELSE NoResult]
  /\ UNCHANGED <<INDEXER, uploads, dim, indexFile, metaFile, nativeRemoval>>

\* the widths of the embedding models a previous run can have used
\* (EMBEDDING_MODEL is read from the environment)
SavedWidths == {ModelWidth, ModelWidth + 1}

\* the index files a manager can find: none, or what a previous run saved
\* for the aggregate m with a model of width w, whole or damaged
IndexFilesFound(m, w) ==
  LET f == WriteIndex(IndexAdd(IndexFlatL2(w), VectorsOfWidth(m, w)))
  IN  {NoIndexFile, f, Damaged(f)}

\* the metadata files a manager can find
MetaFilesFound(m) == {NoMetaFile, WriteMeta(m), Damaged(WriteMeta(m))}

\* FaissIndexer.__init__ followed by load() on whatever files are there
DiskInit ==
  /\ dim = ModelWidth
  /\ nativeRemoval \in BOOLEAN
  /\ \E m \in SavedAggregates, w \in SavedWidths :
       /\ indexFile \in IndexFilesFound(m, w)
       /\ metaFile \in MetaFilesFound(m)
  /\ index = LoadIndex(indexFile, NoIndex)
  /\ meta = LoadMeta(metaFile, <<>>)
  /\ lock = NoThread
  /\ pc = [t \in Threads |-> "idle"]
  /\ loc = [t \in Threads |-> NoLocals]
  /\ res = [t \in Threads |-> NoResult]
  /\ INDEXER = TRUE
  /\ uploads = [u \in Uploads |-> NoUpload]

\* one thread using the manager and its files, with the failures of the
\* file system, and managers constructed anew on the files the last one
\* left
DiskNext ==
  \E t \in {LoopThread} :
    \/ ResetBegin(t)
    \/ ResetBody(t)
    \/ ResetUnlinkFails(t)
    \/ AddBeginDisk(t)
    \/ AddPrepare(t)
    \/ AddIndex(t)
    \/ AddMeta(t)
    \/ SaveBegin(t)
    \/ SaveBody(t)
    \/ SaveWriteIndexFails(t)
    \/ SaveMetaFails(t)
    \/ DeleteBegin(t)
    \/ DeleteRemoveIds(t)
    \/ DeleteFilterMeta(t)
    \/ DeleteRebuild(t)
    \/ DeleteRebuildFails(t)
    \/ DeleteKeepMeta(t)
    \/ Construct(t)
    \/ Return(t)

DiskSpec == Init /\ [][DiskNext]_vars

\* one thread using a manager constructed on whatever files it finds, the
\* file system never failing
RestartNext ==
  \E t \in {LoopThread} :
    \/ ResetBegin(t)
    \/ ResetBody(t)
    \/ AddBeginDisk(t)
    \/ AddPrepare(t)
    \/ AddIndex(t)
    \/ AddMeta(t)
    \/ SaveBegin(t)
    \/ SaveBody(t)
    \/ DeleteBegin(t)
    \/ DeleteRemoveIds(t)
    \/ DeleteFilterMeta(t)
    \/ DeleteRebuild(t)
    \/ DeleteRebuildFails(t)
    \/ DeleteKeepMeta(t)
    \/ RetrieveSearch(t)
    \/ RetrieveFails(t)
    \/ RetrieveResolve(t)
    \/ Construct(t)
    \/ Return(t)

RestartSpec == DiskInit /\ [][RestartNext]_vars

\* ------------------------------------ background cleanup (delete_document)
\* DELETE /documents/{doc}: the handler answers at once and the thread pool
\* runs cleanup, which calls delete_by_source and then save, while the event
\* loop goes on serving uploads (add, reset, save) and searches (retrieve)
CleanupStep(t) ==
  \/ DeleteBegin(t)
  \/ DeleteRemoveIds(t)
  \/ DeleteFilterMeta(t)
  \/ DeleteRebuild(t)
  \/ DeleteRebuildFails(t)
  \/ DeleteKeepMeta(t)
  \/ SaveBegin(t)
  \/ SaveBody(t)
  \/ Return(t)

LoopStep(t) ==
  \/ ResetBegin(t)
  \/ ResetBody(t)
  \/ AddBeginDisk(t)
  \/ AddPrepare(t)
  \/ AddIndex(t)
  \/ AddMeta(t)
  \/ SaveBegin(t)
  \/ SaveBody(t)
  \/ RetrieveSearch(t)
  \/ RetrieveFails(t)
  \/ RetrieveResolve(t)
  \/ Return(t)

CleanupNext ==
  \/ \E t \in {WorkerThread} : CleanupStep(t)
  \/ \E t \in {LoopThread} : LoopStep(t)

\* both threads keep running: a step of a thread that stays possible is
\* taken
CleanupSpec ==
  /\ Init
  /\ [][CleanupNext]_vars
  /\ WF_vars(CleanupStep(WorkerThread))
  /\ WF_vars(LoopStep(LoopThread))

\* -------------------------------------- chat while a cleanup is running
\* the handlers are coroutines of one event loop and run_rag does not give
\* way, so no other handler runs between the two assignments of chat to
\* indexer.meta; the cleanup of a deleted document runs in the thread pool
\* and does
ChatStep(t) ==
  \/ ChatBegin(t)
  \/ RetrieveSearch(t)
  \/ RetrieveFails(t)
  \/ RetrieveResolve(t)
  \/ ChatRestore(t)
  \/ Return(t)

WindowNext ==
  \/ \E t \in {LoopThread} : ChatStep(t)
  \/ \E t \in {WorkerThread} : CleanupStep(t)

WindowSpec == Init /\ [][WindowNext]_vars

\* --------------------------------- a manager of another width than the model
\* the dim a caller can hand to FaissIndexer(dim, index_path): the width of
\* the model get_model() returns, or another one (the manager takes its
\* model from get_model() whatever dim it is given)
ManagerDims == {ModelWidth, ModelWidth + 1}

\* FaissIndexer.__init__ with a dim of the caller's choice, no file there
WidthInit ==
  /\ dim \in ManagerDims
  /\ nativeRemoval \in BOOLEAN
  /\ indexFile = NoIndexFile
  /\ metaFile = NoMetaFile
  /\ index = LoadIndex(indexFile, NoIndex)
  /\ meta = LoadMeta(metaFile, <<>>)
  /\ lock = NoThread
  /\ pc = [t \in Threads |-> "idle"]
  /\ loc = [t \in Threads |-> NoLocals]
  /\ res = [t \in Threads |-> NoResult]
  /\ INDEXER = TRUE
  /\ uploads = [u \in Uploads |-> NoUpload]

\* the operations on the in-memory aggregate of such a manager
WidthSpec == WidthInit /\ [][MemoryNext]_vars

\* ------------------------------------------- the HTTP handlers (routes.py)
\* no upload handler has an answer its client has not taken yet
UploadsAnswered == \A u \in Uploads : uploads[u].stage # "answered"

\* the event loop is free to run a handler: it is not inside a call of the
\* manager, and no answer is waiting to be taken
LoopFree == OutcomesTaken /\ UploadsAnswered /\ pc[LoopThread] = "idle"

\* get_indexer constructs a manager: INDEXER is None and the index file is
\* there
GetIndexerConstructs == ~INDEXER /\ indexFile.exists

\* the distinct sources of the records of m
SourcesOf(m) == {m[i].source : i \in 1..Len(m)}

\* GET /docs: get_indexer, then 404 without a manager or without records,
\* else the documents of meta.  search, chat and process begin with the same
\* get_indexer and the same test.
ListDocs(t) ==
  /\ LoopFree
  /\ t = LoopThread
  /\ IF GetIndexerConstructs
     THEN /\ index' = LoadIndex(indexFile, NoIndex)
          /\ meta' = LoadMeta(metaFile, <<>>)
          /\ lock' = NoThread
          /\ INDEXER' = TRUE
     ELSE UNCHANGED <<index, meta, lock, INDEXER>>
  /\ res' = [res EXCEPT ![t] =
       [NoResult EXCEPT
          !.op = "docs",
          !.status = IF ~INDEXER' \/ Len(meta') = 0 THEN "404" ELSE "ok",
          !.count = IF ~INDEXER' THEN 0 ELSE Cardinality(SourcesOf(meta'))]]
  /\ pc' = [pc EXCEPT ![t] = "done"]
  /\ UNCHANGED <<uploads, dim, indexFile, metaFile, nativeRemoval, loc>>

\* the server process stops and is started again: the module is loaded
\* anew, INDEXER is None, no handler is running; the files stay
Restart(t) ==
  /\ LoopFree
  /\ t = LoopThread
  /\ INDEXER
  /\ INDEXER' = FALSE
  /\ index' = NoIndex
  /\ meta' = <<>>
  /\ lock' = NoThread
  /\ uploads' = [u \in Uploads |-> NoUpload]
  /\ pc' = [u \in Threads |-> IF u = t THEN "done" ELSE "idle"]
  /\ loc' = [u \in Threads |-> NoLocals]
  /\ res' = [u \in Threads |->
               IF u = t THEN [NoResult EXCEPT !.op = "restart", !.status = "ok"]
               ELSE NoResult]
  /\ UNCHANGED <<dim, indexFile, metaFile, nativeRemoval>>

\* split_text(load_pdf(file)): file A splits into two chunks, every other
\* file into one
FileChunks(f) ==
  IF f = "A"
  THEN <<[source |-> "A", text |-> 1], [source |-> "A", text |-> 2]>>
  ELSE <<[source |-> f, text |-> 1]>>

\* the lists of files a client posts: none, one or two names (a name can
\* come twice), or three
Requests == SeqsUpTo(Filenames, 2) \cup {<<"A", "B", "C">>}

\* the position in files, from position from on, of the first file the
\* loop of upload_documents does not skip; 0 when it skips them all
NextFile(files, existing_docs, from) ==
  LET todo == {i \in from..Len(files) : files[i] \notin existing_docs}
  IN  IF todo = {} THEN 0 ELSE CHOOSE i \in todo : \A j \in todo : i <= j

\* POST /upload up to its first "await file.read()", lines 147-199: the
\* count of files is checked; without a manager one is constructed and
\* reset; existing_docs is taken from meta and the workspace limit is
\* checked; the loop skips the files of existing_docs and gives way at the
\* first file it has to read; with every file skipped the handler goes on
\* to save()
UploadBegin(u) ==
  /\ LoopFree
  /\ lock = NoThread
  /\ uploads[u].stage = "none"
  /\ \E files \in Requests :
       IF Len(files) = 0 \/ Len(files) > 2
       THEN /\ uploads' = [uploads EXCEPT ![u] =
                 [NoUpload EXCEPT !.stage = "answered", !.files = files,
                                  !.status = "400"]]
            /\ UNCHANGED <<INDEXER, index, meta, indexFile, metaFile>>
       ELSE LET ix == IF INDEXER THEN index ELSE IndexFlatL2(dim)
                m == IF INDEXER THEN meta ELSE <<>>
                ixf == IF INDEXER THEN indexFile ELSE NoIndexFile
                mf == IF INDEXER THEN metaFile ELSE NoMetaFile
                existing_docs == SourcesOf(m)
                incoming_docs == {files[i] : i \in 1..Len(files)}
                first == NextFile(files, existing_docs, 1)
            IN  /\ INDEXER' = TRUE
                /\ index' = ix
                /\ meta' = m
                /\ IF Cardinality(existing_docs \cup incoming_docs) > 2
                   THEN /\ uploads' = [uploads EXCEPT ![u] =
                             [NoUpload EXCEPT !.stage = "answered",
                                              !.files = files,
                                              !.existing_docs = existing_docs,
                                              !.status = "400"]]
                        /\ indexFile' = ixf
                        /\ metaFile' = mf
                   ELSE IF first = 0
                   THEN /\ uploads' = [uploads EXCEPT ![u] =
                             [NoUpload EXCEPT !.stage = "answered",
                                              !.files = files,
                                              !.existing_docs = existing_docs,
                                              !.status = "ok"]]
                        /\ indexFile' = WriteIndex(ix)
                        /\ metaFile' = WriteMeta(m)
                   ELSE /\ uploads' = [uploads EXCEPT ![u] =
                             [NoUpload EXCEPT !.stage = "reading",
                                              !.files = files,
                                              !.existing_docs = existing_docs,
                                              !.pos = first]]
                        /\ indexFile' = ixf
                        /\ metaFile' = mf
  /\ UNCHANGED <<dim, lock, nativeRemoval, pc, loc, res>>

\* POST /upload from the return of "await file.read()" to the next one or
\* to the answer, lines 199-230: the file is split and embedded and
\* INDEXER.add(vectors, metas) is called; the loop goes on with the files
\* left, skipping those of existing_docs; after the last one INDEXER.save()
\* is called.  An exception (INDEXER is None by now, or add refuses the
\* vectors) ends the request with status 500.
UploadIngest(u) ==
  /\ LoopFree
  /\ lock = NoThread
  /\ uploads[u].stage = "reading"
  /\ LET filename == uploads[u].files[uploads[u].pos]
         metas == FileChunks(filename)
         vectors == Encode(metas)
         prepared == AddPreparedIndex(index, FALSE, dim)
         next == NextFile(uploads[u].files, uploads[u].existing_docs,
                          uploads[u].pos + 1)
     IN  IF ~INDEXER
         THEN /\ uploads' = [uploads EXCEPT ![u].stage = "answered",
                                            ![u].status = "500"]
              /\ UNCHANGED <<index, meta, indexFile, metaFile>>
         ELSE IF Width(vectors) # dim \/ Width(vectors) # prepared.d
         THEN /\ uploads' = [uploads EXCEPT ![u].stage = "answered",
                                            ![u].status = "500"]
              /\ index' = prepared
              /\ UNCHANGED <<meta, indexFile, metaFile>>
         ELSE /\ index' = IndexAdd(prepared, vectors)
              /\ meta' = MetaExtend(meta, metas)
              /\ IF next = 0
                 THEN /\ uploads' = [uploads EXCEPT
                           ![u].stage = "answered",
                           ![u].status = "ok",
                           ![u].uploaded = Append(@, filename),
                           ![u].total_chunks = @ + Len(metas)]
                      /\ indexFile' = WriteIndex(index')
                      /\ metaFile' = WriteMeta(meta')
                 ELSE /\ uploads' = [uploads EXCEPT
                           ![u].pos = next,
                           ![u].uploaded = Append(@, filename),
                           ![u].total_chunks = @ + Len(metas)]
                      /\ UNCHANGED <<indexFile, metaFile>>
  /\ UNCHANGED <<INDEXER, dim, lock, nativeRemoval, pc, loc, res>>

\* the client takes the answer of its upload
UploadReturn(u) ==
  /\ uploads[u].stage = "answered"
  /\ uploads' = [uploads EXCEPT ![u] = NoUpload]
  /\ UNCHANGED <<INDEXER, dim, index, meta, lock, indexFile, metaFile,
                 nativeRemoval, pc, loc, res>>

\* the event loop serving uploads and document lists, over restarts of the
\* process
SessionNext ==
  \/ \E u \in Uploads : UploadBegin(u)
  \/ \E u \in Uploads : UploadIngest(u)
  \/ \E u \in Uploads : UploadReturn(u)
  \/ \E t \in {LoopThread} : ListDocs(t)
  \/ \E t \in {LoopThread} : Restart(t)
  \/ \E t \in {LoopThread} : Return(t)

SessionSpec == Init /\ [][SessionNext]_vars

\* ------------------------------------------- logout and a pending cleanup
\* POST /logout, lines 269-270: with a manager, INDEXER.reset() is called
\* and the event loop enters "with self._lock"; without one there is
\* nothing to reset
LogoutBegin(t) ==
  /\ OutcomesTaken
  /\ t = LoopThread
  /\ pc[t] = "idle"
  /\ IF INDEXER
     THEN /\ lock = NoThread
          /\ lock' = t
          /\ pc' = [pc EXCEPT ![t] = "reset_body"]
          /\ loc' = [loc EXCEPT ![t] = [NoLocals EXCEPT !.caller = "logout"]]
          /\ UNCHANGED res
     ELSE /\ pc' = [pc EXCEPT ![t] = "done"]
          /\ res' = [res EXCEPT ![t] = [NoResult EXCEPT !.op = "logout",
                                          !.status = "ok"]]
          /\ UNCHANGED <<lock, loc>>
  /\ UNCHANGED shared

\* POST /logout, lines 271-277: reset has returned, INDEXER = None, and the
\* handler answers
LogoutClear(t) ==
  /\ OutcomesTaken
  /\ pc[t] = "logout_clear"
  /\ INDEXER' = FALSE
  /\ pc' = [pc EXCEPT ![t] = "done"]
  /\ res' = [res EXCEPT ![t] = [NoResult EXCEPT !.op = "logout",
                                  !.status = "ok"]]
  /\ UNCHANGED <<uploads, dim, index, meta, lock, indexFile, metaFile,
                 nativeRemoval, loc>>

\* cleanup, lines 499-500: with a manager, INDEXER.delete_by_source(name)
CleanupDelete(t) ==
  /\ INDEXER
  /\ DeleteBegin(t)

\* cleanup, lines 499 and 503-504: without a manager it prints a warning
CleanupSkip(t) ==
  /\ OutcomesTaken
  /\ pc[t] = "idle"
  /\ ~INDEXER
  /\ pc' = [pc EXCEPT ![t] = "done"]
  /\ res' = [res EXCEPT ![t] = [NoResult EXCEPT !.op = "cleanup",
                                  !.status = "skipped"]]
  /\ UNCHANGED <<shared, lock, loc>>

\* cleanup, line 501: delete_by_source has returned its count and
\* INDEXER.save() is called, entering "with self._lock"; with INDEXER None
\* by now the AttributeError is caught and printed (lines 505-506)
CleanupSave(t) ==
  /\ pc[t] = "done"
  /\ res[t].op = "delete_by_source" /\ res[t].status = "ok"
  /\ IF INDEXER
     THEN /\ lock = NoThread
          /\ lock' = t
          /\ pc' = [pc EXCEPT ![t] = "save_body"]
          /\ UNCHANGED res
     ELSE /\ res' = [res EXCEPT ![t] = [NoResult EXCEPT !.op = "cleanup",
                                          !.status = "failed"]]
          /\ UNCHANGED <<lock, pc>>
  /\ UNCHANGED <<shared, loc>>

\* cleanup ends: after its save, after an exception of delete_by_source, or
\* after its warning
CleanupReturn(t) ==
  /\ ~(res[t].op = "delete_by_source" /\ res[t].status = "ok")
  /\ Return(t)

\* the event loop serving logout and document lists while the thread pool
\* runs cleanups
LogoutNext ==
  \/ \E t \in {LoopThread} : LogoutBegin(t)
  \/ \E t \in {LoopThread} : ResetBody(t)
  \/ \E t \in {LoopThread} : LogoutClear(t)
  \/ \E t \in {LoopThread} : ListDocs(t)
  \/ \E t \in {LoopThread} : Return(t)
  \/ \E t \in {WorkerThread} : CleanupDelete(t)
  \/ \E t \in {WorkerThread} : CleanupSkip(t)
  \/ \E t \in {WorkerThread} : DeleteRemoveIds(t)
  \/ \E t \in {WorkerThread} : DeleteFilterMeta(t)
  \/ \E t \in {WorkerThread} : DeleteRebuild(t)
  \/ \E t \in {WorkerThread} : DeleteRebuildFails(t)
  \/ \E t \in {WorkerThread} : DeleteKeepMeta(t)
  \/ \E t \in {WorkerThread} : CleanupSave(t)
  \/ \E t \in {WorkerThread} : SaveBody(t)
  \/ \E t \in {WorkerThread} : CleanupReturn(t)

LogoutSpec == Init /\ [][LogoutNext]_vars

\* ------------------------------------ split_text (ingestion/text_splitter.py)
\* a text is a sequence of characters; str.strip() removes these from both
\* ends
Whitespace == {" ", "\n", "\r"}

\* s[lo:hi] of Python: a negative index counts from the end, both are
\* clamped to the string, and an empty range gives ""
SliceIndex(i, n) ==
  IF i < 0 THEN (IF i + n < 0 THEN 0 ELSE i + n)
  ELSE (IF i > n THEN n ELSE i)

Slice(s, lo, hi) ==
  LET a == SliceIndex(lo, Len(s))
      b == SliceIndex(hi, Len(s))
  IN  IF a >= b THEN <<>> ELSE SubSeq(s, a + 1, b)

\* what text.replace("\r\n", "\n") makes of the characters v: of every
\* carriage return with a line end right after it only the line end stays
CrLfReplaced(v) ==
  LET kept == SelectSeq([i \in 1..Len(v) |-> i],
                        LAMBDA i : ~(/\ i < Len(v)
                                     /\ v[i] = "\r"
                                     /\ v[i + 1] = "\n"))
  IN  [k \in 1..Len(kept) |-> v[kept[k]]]

\* text.replace("\r\n", "\n"), of the value of s
ReplaceCrLf(s) == CHOOSE out \in {CrLfReplaced(v) : v \in {s}} : TRUE

\* what re.sub(r"\n{2,}", "\n\n", text) makes of the characters v: of a
\* run of line ends the first two stay
NewlinesCollapsed(v) ==
  LET kept == SelectSeq([i \in 1..Len(v) |-> i],
                        LAMBDA i : ~(/\ i >= 3
                                     /\ v[i] = "\n"
                                     /\ v[i - 1] = "\n"
                                     /\ v[i - 2] = "\n"))
  IN  [k \in 1..Len(kept) |-> v[kept[k]]]

\* re.sub(r"\n{2,}", "\n\n", text), of the value of s
CollapseNewlines(s) == CHOOSE out \in {NewlinesCollapsed(v) : v \in {s}} : TRUE

\* what str.strip() leaves of the characters v: those from the first to the
\* last that is no whitespace
Stripped(v) ==
  LET keep == {i \in 1..Len(v) : v[i] \notin Whitespace}
  IN  IF keep = {} THEN <<>>
      ELSE SubSeq(v, CHOOSE i \in keep : \A j \in keep : i <= j,
                     CHOOSE i \in keep : \A j \in keep : i >= j)

\* str.strip(), of the value of s
Strip(s) == CHOOSE out \in {Stripped(v) : v \in {s}} : TRUE

\* clean_text(text)
CleanText(s) == Strip(CollapseNewlines(ReplaceCrLf(s)))

\* a step of the window that goes backwards
StepBack(chunk_size, overlap) == overlap - chunk_size

\* what the loop adds to start: chunk_size - overlap
Step(chunk_size, overlap) == chunk_size - overlap

\* the filter of the return statement: len(c) > 20
KeepChunk(c) == Len(c) > 20

\* a run of n characters c
Run(c, n) == [i \in 1..n |-> c]

\* the pieces the texts are made of: a run of letters long enough to pass
\* the filter, one letter, a blank, a line end, a Windows line end
Pieces == {Run("a", 21), <<"a">>, <<" ">>, <<"\n">>, <<"\r", "\n">>}

\* the texts handed to split_text: up to MaxPieces pieces one after another
RECURSIVE TextsOf(_)
TextsOf(n) ==
  IF n = 0 THEN {<<>>}
  ELSE LET shorter == TextsOf(n - 1)
       IN  shorter \cup {t \o p : t \in shorter, p \in Pieces}

Texts31 == TextsOf(MaxPieces)

\* the chunk sizes and overlaps handed to split_text
ChunkSizes == {-2, 1, 22}
Overlaps == {-5, 0, 20, 22}

\* the loop is followed for as many rounds as the longest text has
\* characters, and one more
MaxRounds == 21 * MaxPieces + 1

\* split_text(text, chunk_size, overlap) is called
SplitInit ==
  /\ dim = ModelWidth
  /\ nativeRemoval = TRUE
  /\ indexFile = NoIndexFile
  /\ metaFile = NoMetaFile
  /\ index = NoIndex
  /\ meta = <<>>
  /\ lock = NoThread
  /\ INDEXER = TRUE
  /\ uploads = [u \in Uploads |-> NoUpload]
  /\ pc = [t \in Threads |-> IF t = LoopThread THEN "split_clean" ELSE "idle"]
  /\ \E text \in Texts31, chunk_size \in ChunkSizes, overlap \in Overlaps :
       loc = [t \in Threads |->
                IF t = LoopThread
                THEN [NoLocals EXCEPT !.text = text,
                                      !.chunk_size = chunk_size,
                                      !.overlap = overlap]
                ELSE NoLocals]
  /\ res = [t \in Threads |-> NoResult]

\* lines 14-17: text = clean_text(text), chunks = [], start = 0,
\* length = len(text)
SplitClean(t) ==
  /\ pc[t] = "split_clean"
  /\ loc' = [loc EXCEPT ![t].text = CleanText(loc[t].text),
                        ![t].chunks = <<>>,
                        ![t].start = 0,
                        ![t].length = Len(CleanText(loc[t].text))]
  /\ pc' = [pc EXCEPT ![t] = "split_loop"]
  /\ UNCHANGED <<shared, lock, res>>

\* lines 19-23, one round of the loop: the stripped window is appended and
\* start moves on
SplitRound(t) ==
  /\ pc[t] = "split_loop"
  /\ loc[t].start < loc[t].length
  /\ Len(loc[t].chunks) < MaxRounds
  /\ LET end == Min(loc[t].length, loc[t].start + loc[t].chunk_size)
         chunk == Slice(loc[t].text, loc[t].start, end)
     IN  loc' = [loc EXCEPT
                   ![t].chunks = Append(@, Strip(chunk)),
                   ![t].start = @ + Step(loc[t].chunk_size, loc[t].overlap)]
  /\ UNCHANGED <<shared, lock, pc, res>>

\* lines 19 and 26: the loop ends and the chunks of more than 20 characters
\* are returned
SplitReturn(t) ==
  /\ pc[t] = "split_loop"
  /\ ~(loc[t].start < loc[t].length)
  /\ pc' = [pc EXCEPT ![t] = "done"]
  /\ res' = [res EXCEPT ![t] =
       [NoResult EXCEPT !.op = "split_text", !.status = "ok",
                        !.recs = SelectSeq(loc[t].chunks, KeepChunk),
                        !.count = Len(SelectSeq(loc[t].chunks, KeepChunk))]]
  /\ UNCHANGED <<shared, lock, loc>>

SplitNext ==
  \E t \in {LoopThread} :
    \/ SplitClean(t)
    \/ SplitRound(t)
    \/ SplitReturn(t)

\* a call of split_text keeps running
SplitSpec == SplitInit /\ [][SplitNext]_vars /\ WF_vars(SplitNext)

\* ============================================================ properties
\* the steps of add, delete_by_source and reset between their first write
\* and their last
MutatingPcs == {"reset_body", "add_body", "add_index", "add_meta",
                "del_remove", "del_meta", "del_keep"}

\* no add, delete_by_source or reset is part-way through its writes
BetweenOperations == \A t \in Threads : pc[t] \notin MutatingPcs

\* thread t has just finished a call of one of the operations in ops
Completed(t, ops) == pc[t] = "done" /\ res[t].op \in ops

\* C1: between operations (after every add, delete_by_source or reset) the
\* index holds as many vectors as meta holds records
C1_LengthsAgree == BetweenOperations => ntotal(index) = Len(meta)

\* a delete_by_source has removed rows natively and left others behind
C1_Witness ==
  \E t \in Threads :
    /\ pc[t] = "del_save" /\ nativeRemoval
    /\ Len(meta) >= 1 /\ Len(meta) < Len(loc[t].preMeta)
    /\ ntotal(index) = Len(meta)

\* C2: between operations the vector at every position is the embedding of
\* the text of the record at that position
C2_PositionsCorrespond ==
  BetweenOperations =>
    \A i \in 1..Min(ntotal(index), Len(meta)) :
      index.vecs[i] = Embed(meta[i].text)

\* a delete_by_source has rebuilt the index from two kept records with
\* different texts
C2_Witness ==
  \E t \in Threads :
    /\ pc[t] = "del_save" /\ ~nativeRemoval
    /\ Len(meta) = 2 /\ meta[1].text # meta[2].text
    /\ loc[t].to_remove # {}
    /\ index.vecs = Encode(meta)

\* C3: a call of delete_by_source returns or raises; it is never left
\* waiting, inside save(), for the lock it holds itself
C3_DeleteNeverBlocks ==
  \A t \in Threads : ~(pc[t] = "del_save" /\ lock = t)

\* thread t is in a delete_by_source(S) that has done all its work on index
\* and meta: it has returned its count, or it has reached its call of save()
DeleteApplied(t) ==
  \/ pc[t] = "del_save"
  \/ Completed(t, {"delete_by_source"}) /\ res[t].status = "ok"

\* the positions of the records of m that have source S
WithSource(m, S) == {i \in 1..Len(m) : m[i].source = S}

\* C4: once delete_by_source(S) has done its work, no record of meta has
\* source S, the records kept are the records of the other sources in their
\* original order, and meta and the index are shorter by exactly the number
\* of records that had source S, which is the count returned
C4_DeleteRemovesExactlySource ==
  \A t \in Threads :
    DeleteApplied(t) =>
      LET S == loc[t].source
          before == loc[t].preMeta
          removed == Cardinality(WithSource(before, S))
      IN  /\ WithSource(meta, S) = {}
          /\ meta = SelectSeq(before, LAMBDA r : r.source # S)
          /\ Len(meta) = Len(before) - removed
          /\ ntotal(index) = ntotal(loc[t].preIndex) - removed
          /\ Cardinality(loc[t].to_remove) = removed
          /\ pc[t] = "done" => res[t].count = removed

\* a delete has removed the middle one of three records and kept two
C4_Witness ==
  \E t \in Threads :
    /\ DeleteApplied(t)
    /\ Len(loc[t].preMeta) = 3
    /\ loc[t].to_remove = {2}
    /\ Len(meta) = 2 /\ meta[1] # meta[2]

\* C5: a step that calls delete_by_source(S) when no record of meta has
\* source S returns 0 and changes neither index, meta nor the two files
C5_DeleteAbsentSourceIsNoOp ==
  [][ \A t \in Threads :
        ( /\ pc[t] = "idle"
          /\ \/ loc'[t].caller = "delete_by_source"
             \/ pc'[t] = "done" /\ res'[t].op = "delete_by_source"
          /\ WithSource(meta, loc'[t].source) = {} )
        => /\ pc'[t] = "done"
           /\ res'[t].status = "ok" /\ res'[t].count = 0
           /\ UNCHANGED <<index, meta, indexFile, metaFile>> ]_vars

\* delete_by_source of a source that is absent has returned 0 while the
\* store holds records that the files do not
C5_Witness ==
  \E t \in Threads :
    /\ Completed(t, {"delete_by_source"}) /\ res[t].count = 0
    /\ Len(meta) >= 1
    /\ WithSource(meta, loc[t].source) = {}
    /\ metaFile.exists /\ JsonLoads(metaFile.items) # meta

\* C6: when the embedding model fails during the rebuild, the step that
\* ends delete_by_source signals a rebuild failure, leaves index and meta as
\* they were when the call started, and writes no file
C6_FailedRebuildLeavesState ==
  [][ \A t \in Threads :
        ( /\ pc[t] = "del_remove" /\ pc'[t] = "done" )
        => /\ res'[t].op = "delete_by_source"
           /\ res'[t].status = "RebuildFailure"
           /\ index' = loc[t].preIndex
           /\ meta' = loc[t].preMeta
           /\ UNCHANGED <<indexFile, metaFile>> ]_vars

\* a rebuild has failed on a store that has an index holding vectors
C6_Witness ==
  \E t \in Threads :
    /\ Completed(t, {"delete_by_source"})
    /\ res[t].status = "RebuildFailure"
    /\ ntotal(index) >= 2
    /\ loc[t].to_remove # {}

\* C7: after an add that failed with a dimension mismatch, index and meta
\* hold what they held before the call
C7_FailedAddLeavesState ==
  \A t \in Threads :
    (Completed(t, {"add"}) /\ res[t].status = "DimensionMismatch")
    => /\ index.vecs = loc[t].preIndex.vecs
       /\ meta = loc[t].preMeta

\* vecs and m are one version of the aggregate: one vector per record, each
\* the embedding of its record's text
Aligned(vecs, m) ==
  /\ Len(vecs) = Len(m)
  /\ \A i \in 1..Len(m) : vecs[i] = Embed(m[i].text)

\* C8: the vectors a retrieve searched and the records it looked the row
\* ids up in are one version of the aggregate
C8_RetrieveSeesOneVersion ==
  \A t \in Threads :
    (Completed(t, {"retrieve"}) /\ res[t].status = "ok")
    => Aligned(loc[t].searched, loc[t].resolved)

\* C9: every step that changes index or meta is taken by a thread that
\* holds the lock
C9_WritesHoldLock ==
  [][ (index' # index \/ meta' # meta)
      => \E t \in Threads : lock = t /\ pc'[t] # pc[t] ]_vars

\* distance of row i of the searched vectors to the query of thread t
RowDistance(t, i) == L2sqr(loc[t].searched[i], Embed(loc[t].q))

\* row i ranks before row j: nearer, or as near and at a lower position
RanksBefore(t, i, j) ==
  \/ RowDistance(t, i) < RowDistance(t, j)
  \/ RowDistance(t, i) = RowDistance(t, j) /\ i < j

\* C10: a retrieve(query, k) on a consistent store returns min(k, count)
\* records: those of the nearest rows, nearest first, rows as near as each
\* other by position; on an empty store it returns nothing and is no error
C10_RetrieveRanksNearest ==
  \A t \in Threads :
    /\ (Completed(t, {"retrieve"}) /\ res[t].status = "ok"
          /\ Aligned(loc[t].searched, loc[t].resolved))
       => LET I == loc[t].I
              n == Len(loc[t].searched)
          IN  /\ Len(res[t].recs) = Min(loc[t].k, n)
              /\ Len(I) = Len(res[t].recs)
              /\ \A p \in 1..Len(I) : /\ I[p] \in 1..n
                                      /\ res[t].recs[p] = loc[t].resolved[I[p]]
              /\ \A p, r \in 1..Len(I) : p < r => RanksBefore(t, I[p], I[r])
              /\ \A i \in 1..n :
                   (\A p \in 1..Len(I) : I[p] # i)
                   => \A p \in 1..Len(I) : RanksBefore(t, I[p], i)
    /\ (Completed(t, {"retrieve"}) /\ Len(meta) = 0 /\ ntotal(index) = 0
          /\ loc[t].searched = <<>>)
       => res[t].status = "empty" /\ res[t].recs = <<>>

\* a retrieve with k = 2 on three rows has returned two rows that are
\* equally near, leaving out a third
C10_Witness ==
  \E t \in Threads :
    /\ Completed(t, {"retrieve"}) /\ res[t].status = "ok"
    /\ Aligned(loc[t].searched, loc[t].resolved)
    /\ Len(loc[t].searched) = 3 /\ loc[t].k = 2
    /\ Len(res[t].recs) = 2
    /\ RowDistance(t, loc[t].I[1]) = RowDistance(t, loc[t].I[2])
    /\ res[t].recs[1] # res[t].recs[2]

\* C11: a retrieve that ends returns records of meta, no more of them than
\* meta holds, so none of a source meta does not hold; and once a
\* delete_by_source(S) has done its work, no retrieve returns a record of S
C11_RetrieveAfterDelete ==
  \A t \in Threads :
    (Completed(t, {"retrieve"}) /\ res[t].status = "ok")
    => /\ Len(res[t].recs) <= Len(meta)
       /\ \A p \in 1..Len(res[t].recs) :
            /\ \E i \in 1..Len(meta) : meta[i] = res[t].recs[p]
            /\ \A u \in Threads :
                 pc[u] = "del_save" => res[t].recs[p].source # loc[u].source

\* a retrieve has returned a record after a delete_by_source removed the
\* records of another source from a store that held both
C11_Witness ==
  \E t, u \in Threads :
    /\ pc[u] = "del_save"
    /\ WithSource(loc[u].preMeta, loc[u].source) # {}
    /\ Len(loc[u].preMeta) > Cardinality(loc[u].to_remove)
    /\ Completed(t, {"retrieve"}) /\ res[t].status = "ok"
    /\ Len(res[t].recs) >= 1
    /\ Len(loc[t].searched) = Len(meta)

\* C12: a reset that has returned leaves an empty index, an empty meta and
\* neither file; so a second reset right after it leaves the same state
C12_ResetLeavesNothing ==
  \A t \in Threads :
    Completed(t, {"reset"})
    => /\ index = IndexFlatL2(dim)
       /\ meta = <<>>
       /\ ~indexFile.exists
       /\ ~metaFile.exists

\* C13: after a save that has returned, load() gives back the index and the
\* meta that were saved, in the manager that saved them and in a manager
\* constructed anew on the same paths
C13_SaveLoadRoundTrip ==
  \A t \in Threads :
    (Completed(t, {"save"}) /\ res[t].status = "ok")
    => /\ LoadIndex(indexFile, index) = index
       /\ LoadMeta(metaFile, meta) = meta
       /\ LoadIndex(indexFile, NoIndex) = index
       /\ LoadMeta(metaFile, <<>>) = meta

\* the two files hold one aggregate: each file that exists is whole, and
\* the index file has one row per record of the metadata file (a file that
\* does not exist holds no entry)
FilesHoldOneAggregate ==
  /\ indexFile.exists => indexFile.valid
  /\ metaFile.exists => metaFile.valid
  /\ (IF indexFile.exists THEN indexFile.ntotal ELSE 0)
       = (IF metaFile.exists THEN Len(metaFile.items) ELSE 0)

\* C14: after a save that has returned, the index file and the metadata
\* file are snapshots of one aggregate, entry for entry
C14_SaveWritesOneAggregate ==
  \A t \in Threads :
    (Completed(t, {"save"}) /\ res[t].status = "ok") => FilesHoldOneAggregate

\* C15: constructing a manager does not fail; with the index file missing or
\* damaged the manager has no vectors, with the metadata file missing or
\* damaged it has no records; and the manager is usable in that state: a
\* retrieve without an index returns nothing and is no error, an add
\* without an index creates one and stores its batch, and the engine refuses
\* rows or queries only when it was loaded with another width
C15_LoadFallsBack ==
  \A t \in Threads :
    /\ Completed(t, {"construct"})
       => /\ res[t].status = "ok"
          /\ (~indexFile.exists \/ ~indexFile.valid)
             => ~index.present /\ ntotal(index) = 0
          /\ (~metaFile.exists \/ ~metaFile.valid) => meta = <<>>
    /\ (Completed(t, {"retrieve"}) /\ ~index.present)
       => res[t].status = "empty" /\ res[t].recs = <<>>
    /\ (Completed(t, {"add"}) /\ res[t].status = "ok"
          /\ ~loc[t].preIndex.present)
       => /\ index = IndexAdd(IndexFlatL2(dim), loc[t].vectors)
          /\ Len(meta) >= Len(loc[t].metas)
    /\ (Completed(t, {"add", "retrieve"}) /\ res[t].status = "EngineError")
       => index.present /\ index.d # dim

\* a manager has been constructed on a damaged index file that holds rows
\* and a whole metadata file that holds records
C15_Witness ==
  \E t \in Threads :
    /\ Completed(t, {"construct"})
    /\ indexFile.exists /\ ~indexFile.valid /\ indexFile.ntotal >= 1
    /\ metaFile.exists /\ metaFile.valid
    /\ Len(meta) >= 1

\* the steps of add
AddPcs == {"add_body", "add_index", "add_meta"}

\* C16: no step of add changes the index file or the metadata file, also
\* when the process stops in the middle of it; the files change only in
\* the body of save (called by a client or by delete_by_source) and of reset
C16_AddLeavesFiles ==
  [][ /\ \A t \in Threads :
           (pc[t] \in AddPcs \/ pc'[t] \in AddPcs)
           => UNCHANGED <<indexFile, metaFile>>
      /\ (indexFile' # indexFile \/ metaFile' # metaFile)
         => \E t \in Threads : pc[t] \in {"save_body", "reset_body"} ]_vars

\* an add has returned and the metadata file still holds the records saved
\* before it
C16_Witness ==
  \E t \in Threads :
    /\ Completed(t, {"add"}) /\ res[t].status = "ok"
    /\ metaFile.exists /\ metaFile.valid
    /\ indexFile.exists /\ indexFile.valid
    /\ JsonLoads(metaFile.items) = loc[t].preMeta
    /\ Len(meta) > Len(loc[t].preMeta)
    /\ Len(loc[t].preMeta) >= 1

\* s is the beginning of r
IsPrefix(s, r) == Len(s) <= Len(r) /\ SubSeq(r, 1, Len(s)) = s

\* a step in the body of delete_by_source or of reset
DestroyingStep ==
  \E t \in Threads : pc[t] \in {"del_remove", "del_meta", "del_keep", "reset_body"}

\* C17: a step that is not in the body of a delete_by_source or of a reset
\* leaves every record of meta, and every vector of the index, where it is
\* and as it is; it can only append
C17_ChunksStayUntilDestroyed ==
  [][ ~DestroyingStep
      => /\ IsPrefix(meta, meta')
         /\ IsPrefix(index.vecs, index'.vecs) ]_vars

\* the steps of delete_by_source up to its return
DeletePcs == {"del_remove", "del_meta", "del_keep", "del_save", "save_body"}

\* C18: a cleanup that has entered delete_by_source eventually returns from
\* it, with the lock free and no record of its document left in meta
C18_CleanupFinishes ==
  (pc[WorkerThread] \in DeletePcs /\ loc[WorkerThread].caller = "delete_by_source")
    ~> (pc[WorkerThread] = "done" /\ lock # WorkerThread)

\* C19: an add or a delete_by_source that succeeded on a manager whose index
\* and meta had different lengths, and any reset, leaves them with equal
\* lengths
C19_NextOperationRepairs ==
  \A t \in Threads :
    /\ Completed(t, {"reset"}) => ntotal(index) = Len(meta)
    /\ ( /\ \/ (Completed(t, {"add"}) /\ res[t].status = "ok")
             \/ DeleteApplied(t)
          /\ ntotal(loc[t].preIndex) # Len(loc[t].preMeta) )
       => ntotal(index) = Len(meta)

\* C20: the engine a manager holds has the manager's dimension, and so has
\* every vector in it
C20_EngineHasManagerDim ==
  index.present
  => /\ index.d = dim
     /\ \A i \in 1..ntotal(index) : Len(index.vecs[i]) = dim

\* the two files hold what a save() wrote
FilesSaved ==
  /\ indexFile.exists /\ indexFile.valid
  /\ metaFile.exists /\ metaFile.valid

\* C21: when the process has been started again on the files a save()
\* wrote for an aggregate that holds chunks, the request that gives the process its manager gives it the saved
\* aggregate: the manager holds the vectors of the index file and the
\* records of the metadata file, and the files are as they were
C21_SavedAggregateSurvivesRestart ==
  [][ (~INDEXER /\ FilesSaved /\ Len(metaFile.items) >= 1 /\ INDEXER')
      => /\ index' = ReadIndex(indexFile)
         /\ meta' = JsonLoads(metaFile.items)
         /\ UNCHANGED <<indexFile, metaFile>> ]_vars

\* C22: after a delete_by_source that signalled a rebuild failure, index and
\* meta are what they were when the call started; in particular the index
\* is not empty while meta still holds its records
C22_RebuildFailurePreservesState ==
  \A t \in Threads :
    (Completed(t, {"delete_by_source"}) /\ res[t].status = "RebuildFailure")
    => /\ index = loc[t].preIndex
       /\ meta = loc[t].preMeta
       /\ ntotal(index) = 0 => Len(meta) = 0

\* C23: once a delete_by_source has done its work on an aggregate whose
\* vectors were the embeddings of its records, index and meta are what
\* native removal gives and what the rebuild gives, which are the same:
\* the index without the rows of the source, equal to the index built from
\* the embeddings of the kept records in their order, and meta without the
\* records of the source; the count is the number of records removed
C23_DeletionPathsAgree ==
  \A t \in Threads :
    ( /\ DeleteApplied(t)
      /\ loc[t].preIndex.present
      /\ Aligned(loc[t].preIndex.vecs, loc[t].preMeta) )
    => LET to_remove == ToRemove(loc[t].preMeta, loc[t].source)
           keep_meta == KeepMeta(loc[t].preMeta, to_remove)
           native == RemoveIds(loc[t].preIndex, to_remove)
           rebuilt == RebuiltIndex(keep_meta, dim)
       IN  /\ native = rebuilt
           /\ index = native
           /\ index = rebuilt
           /\ meta = keep_meta
           /\ Cardinality(loc[t].to_remove) = Len(loc[t].preMeta) - Len(meta)
           /\ pc[t] = "done" => res[t].count = Cardinality(to_remove)

\* a delete_by_source has taken the rebuild path on three records and kept
\* two with different texts, whose vectors are the rows native removal
\* would have left
C23_Witness ==
  \E t \in Threads :
    /\ pc[t] = "del_save" /\ ~nativeRemoval
    /\ Len(loc[t].preMeta) = 3 /\ Len(loc[t].keep_meta) = 2
    /\ Aligned(loc[t].preIndex.vecs, loc[t].preMeta)
    /\ index.vecs[1] # index.vecs[2]
    /\ index = RemoveIds(loc[t].preIndex, loc[t].to_remove)

\* C24: when a chat request for a document has ended, with an answer or
\* with an exception, meta holds the records it held when the request
\* began
C24_ChatLeavesMeta ==
  \A t \in Threads :
    Completed(t, {"chat"}) => meta = loc[t].original_meta

\* chat request t has returned after restoring meta, and delete_by_source
\* call u started on the filtered view of that request and removed records
\* of it
DeletedInWindow(t, u) ==
  /\ Completed(t, {"chat"}) /\ res[t].status \in {"ok", "empty"}
  /\ DeleteApplied(u) /\ loc[u].to_remove # {}
  /\ loc[u].preMeta = FilteredMeta(loc[t].original_meta, loc[t].source)
  /\ loc[u].preMeta # loc[t].original_meta

\* C25: a delete_by_source of the cleanup that ran on the filtered view of
\* a chat request is undone in meta and not in the index once chat has
\* restored the original list: meta is the original list again, it holds
\* the records of the deleted source again, and the index has fewer vectors
\* than meta has records
C25_WindowMutationLost ==
  \A t, u \in Threads :
    DeletedInWindow(t, u)
    => /\ meta = loc[t].original_meta
       /\ WithSource(meta, loc[u].source) # {}
       /\ ntotal(index) < Len(meta)

\* the cleanup has deleted a source from the filtered view of a chat,
\* removing the vector of another document from the index, and the chat has
\* restored its original list
C25_Witness ==
  \E t, u \in Threads :
    /\ DeletedInWindow(t, u)
    /\ Len(loc[t].original_meta) = 2
    /\ loc[u].source = "B"
    /\ ntotal(index) = 1
    /\ index.vecs[1] = loc[u].preIndex.vecs[2]

\* C26: a chat request for a document of a workspace that holds several
\* passes on only records of that document, and each of them is the record
\* of a row the search matched: the record at that row's position in the
\* list the index was built with
C26_ChatResolvesMatchedRows ==
  \A t \in Threads :
    ( /\ Completed(t, {"chat"}) /\ res[t].status = "ok"
      /\ Aligned(loc[t].searched, loc[t].original_meta)
      /\ WithSource(loc[t].original_meta, loc[t].source) # {}
      /\ Cardinality(SourcesOf(loc[t].original_meta)) >= 2 )
    => \A p \in 1..Len(res[t].recs) :
         /\ res[t].recs[p].source = loc[t].source
         /\ \E j \in 1..Len(loc[t].I) :
              /\ loc[t].I[j] <= Len(loc[t].original_meta)
              /\ loc[t].original_meta[loc[t].I[j]] = res[t].recs[p]

\* C27: no thread is blocked for ever on the lock: the thread that holds
\* the lock has a step to take whenever no outcome waits to be taken (so it
\* comes to release it), and when no thread is inside an operation the
\* lock is free
C27_NoThreadBlockedOnLock ==
  /\ \A t \in Threads :
       (lock = t /\ OutcomesTaken)
       => ENABLED (CleanupStep(t) \/ LoopStep(t))
  /\ (\A t \in Threads : pc[t] \in {"idle", "done"}) => lock = NoThread

\* C28: whatever the upload handlers do and however they interleave, meta
\* holds records of at most 2 sources, and the step that answers an upload
\* with status 400 changes neither meta nor the index
C28_WorkspaceLimit ==
  [][ /\ Cardinality(SourcesOf(meta')) <= 2
      /\ \A u \in Uploads :
           (uploads'[u].status = "400" /\ uploads[u].status # "400")
           => UNCHANGED <<meta, index>> ]_vars

\* C29: whatever the upload handlers do and however they interleave, the
\* chunks of a file are in meta at most once: meta holds no more records of
\* a source than the file of that name has chunks, and the index no more
\* vectors than that in all
C29_SourceChunksOnce ==
  /\ \A f \in Filenames :
       Cardinality(WithSource(meta, f)) <= Len(FileChunks(f))
  /\ ntotal(index) <= Len(FileChunks("A")) + Len(FileChunks("B"))
                        + Len(FileChunks("C"))

\* C30: a logout that has answered leaves INDEXER None; while INDEXER is
\* None neither the index file nor the metadata file is there, whatever a
\* cleanup does; and a request for the documents that finds INDEXER None
\* answers 404
C30_LogoutLeavesNothing ==
  [][ /\ \A t \in Threads :
           (pc'[t] = "done" /\ res'[t].op = "logout") => ~INDEXER'
      /\ ~INDEXER' => (~indexFile'.exists /\ ~metaFile'.exists)
      /\ \A t \in Threads :
           (~INDEXER /\ pc'[t] = "done" /\ res'[t].op = "docs")
           => res'[t].status = "404" ]_vars

\* ---- C31
\* the call of split_text under way, its arguments and locals
SplitCall == loc[LoopThread]

\* the precondition the claim names: overlap < chunk_size
SplitOverlapSmaller == SplitCall.overlap < SplitCall.chunk_size

\* the claim's precondition and a chunk size of at least one character
SplitSizesSensible == SplitOverlapSmaller /\ SplitCall.chunk_size >= 1

\* the window the i-th round of the loop cuts from the cleaned text, read
\* off the offsets (i - 1) * (chunk_size - overlap) without running the loop
SplitWindow(i) ==
  LET from == (i - 1) * (SplitCall.chunk_size - SplitCall.overlap)
      to == from + SplitCall.chunk_size
  IN  Strip(Slice(SplitCall.text, from,
                  IF to < SplitCall.length THEN to ELSE SplitCall.length))

\* the number of windows whose offset lies inside the text
SplitWindows ==
  LET by == SplitCall.chunk_size - SplitCall.overlap
  IN  (SplitCall.length + by - 1) \div by

\* the windows of more than 20 characters, by rising offset
SplitInOrder ==
  SelectSeq([i \in 1..SplitWindows |-> SplitWindow(i)],
            LAMBDA c : Len(c) > 20)

\* a round of the loop moves start up
SplitStartRises ==
  SplitRound(LoopThread) => loc'[LoopThread].start > loc[LoopThread].start

\* the loop has run at most once per character of the cleaned text
SplitRoundsBounded == Len(SplitCall.chunks) <= SplitCall.length

\* once the call has returned, what it returned is the windows of more than
\* 20 and at most chunk_size characters, by rising offset
SplitReturnsInOrder ==
  res[LoopThread].op = "split_text"
    => /\ \A i \in 1..Len(res[LoopThread].recs) :
            /\ Len(res[LoopThread].recs[i]) > 20
            /\ Len(res[LoopThread].recs[i]) <= SplitCall.chunk_size
       /\ res[LoopThread].recs = SplitInOrder

\* C31 as stated: split_text terminates for every text whenever overlap <
\* chunk_size, start strictly increasing on each iteration, and every chunk
\* it returns has more than 20 and at most chunk_size characters, in
\* document order.
C31_SplitTextAsStated ==
  /\ [][SplitOverlapSmaller => SplitStartRises]_vars
  /\ [](SplitOverlapSmaller => SplitRoundsBounded)
  /\ [](SplitOverlapSmaller => SplitReturnsInOrder)
  /\ (SplitOverlapSmaller /\ pc[LoopThread] = "split_clean")
       ~> (pc[LoopThread] = "done")

\* C31 amended: the same for a chunk_size of at least 1 with overlap <
\* chunk_size: split_text terminates, start strictly increasing on each
\* iteration, and every chunk it returns has more than 20 and at most
\* chunk_size characters, in document order.
C31_SplitTextTerminatesInOrder ==
  /\ [][SplitSizesSensible => SplitStartRises]_vars
  /\ [](SplitSizesSensible => SplitRoundsBounded)
  /\ [](SplitSizesSensible => SplitReturnsInOrder)
  /\ (SplitSizesSensible /\ pc[LoopThread] = "split_clean")
       ~> (pc[LoopThread] = "done")

\* a call with overlap < chunk_size and a positive chunk_size has returned
\* two chunks after dropping a shorter one, one of them shortened by strip
C31_Witness ==
  /\ SplitSizesSensible
  /\ pc[LoopThread] = "done"
  /\ res[LoopThread].op = "split_text"
  /\ Len(res[LoopThread].recs) >= 2
  /\ Len(SplitCall.chunks) > Len(res[LoopThread].recs)
  /\ SplitCall.overlap > 0
  /\ \E i \in 1..Len(res[LoopThread].recs) :
       Len(res[LoopThread].recs[i]) < SplitCall.chunk_size

====
